---- MODULE Spec2Model ----
(***************************************************************************)
(* A model of pubmedtool: PubMedFetcher (src/src/pubmedtool/__init__.py)   *)
(* and its two command-line entry points (pubmedtool.main and cli.main).   *)
(*                                                                         *)
(* cli.py imports its PubMedFetcher from pubmedtool.pubmed_fetcher, a module  *)
(* the repository does not hold; the one PubMedFetcher there is, the class  *)
(* of pubmedtool/__init__.py, stands for it.                                *)
(*                                                                         *)
(* Python strings are sequences of one-character strings.  An optional     *)
(* value (the result of Element.find, Element.text, a dict that may be     *)
(* empty) is a sequence of length 0 (None / {}) or 1 (the value).          *)
(***************************************************************************)
EXTENDS Integers, Sequences, FiniteSets, TLC

\* ------------------------------------------------------------------------
\* Bounds of the model
\* ------------------------------------------------------------------------

\* Largest number of PubmedArticle nodes in a structural payload.
MaxArticles == 3

\* Largest number of Author nodes in a structural payload, all articles together.
MaxAuthors == 3

\* Largest number of text fragments concatenated into one affiliation text.
MaxFrags == 2

\* ------------------------------------------------------------------------
\* Optional values and characters
\* ------------------------------------------------------------------------

None == <<>>

Some(x) == <<x>>

Lower == {"a","b","c","d","e","f","g","h","i","j","k","l","m",
          "n","o","p","q","r","s","t","u","v","w","x","y","z"}

Upper == {"A","B","C","D","E","F","G","H","I","J","K","L","M",
          "N","O","P","Q","R","S","T","U","V","W","X","Y","Z"}

Digit == {"0","1","2","3","4","5","6","7","8","9"}

\* [a-zA-Z]
Letters == Lower \cup Upper

\* [a-zA-Z0-9._%+-]
LocalChars == Letters \cup Digit \cup {".", "_", "%", "+", "-"}

\* [a-zA-Z0-9.-]
DomainChars == Letters \cup Digit \cup {".", "-"}

\* The maximum of a non-empty set of integers.
Max(S) == CHOOSE m \in S : \A k \in S : k <= m

\* ------------------------------------------------------------------------
\* str.__contains__ and the keyword list of line 87
\* ------------------------------------------------------------------------

\* k in t, for two Python strings.
IsSubstring(k, t) ==
    \E i \in 1..(Len(t) - Len(k) + 1) : SubSeq(t, i, i + Len(k) - 1) = k

Keywords ==
    << <<"U","n","i","v","e","r","s","i","t","y">>,
       <<"l","a","b","s">>,
       <<"I","n","s","t","i","t","u","t","e">>,
       <<"C","o","l","l","e","g","e">>,
       <<"S","c","h","o","o","l">> >>

\* all(keyword not in affiliation_text for keyword in [...])
NoKeywordIn(t) ==
    \A n \in 1..Len(Keywords) : ~IsSubstring(Keywords[n], t)

\* ------------------------------------------------------------------------
\* re.findall(r"[a-zA-Z0-9._%+-]+@[a-zA-Z0-9.-]+\.[a-zA-Z]{2,}", text)
\* ------------------------------------------------------------------------

RECURSIVE Run(_, _, _)
\* The length of the longest run of characters of class S that starts at t[i]:
\* what a greedy S+ (or S*) first consumes there.
Run(t, i, S) ==
    IF i <= Len(t) /\ t[i] \in S THEN 1 + Run(t, i + 1, S) ELSE 0

\* [a-zA-Z0-9.-]+\.[a-zA-Z]{2,} tried at t[d]: the position after the match, or 0.
\* The greedy domain run is given back one character at a time until a "."
\* followed by two or more letters is found; the letters are then taken greedily.
DomainEnd(t, d) ==
    LET D == Run(t, d, DomainChars)
        ok == {m \in 1..D : /\ d + m <= Len(t)
                            /\ t[d + m] = "."
                            /\ Run(t, d + m + 1, Letters) >= 2}
    IN  IF ok = {} THEN 0
        ELSE LET m == Max(ok) IN d + m + 1 + Run(t, d + m + 1, Letters)

\* The whole pattern tried at t[i]: the position after the match, or 0.  The
\* greedy local-part run is given back one character at a time until "@" and a
\* domain follow.
MatchAt(t, i) ==
    LET L == Run(t, i, LocalChars)
        ok == {n \in 1..L : /\ i + n <= Len(t)
                            /\ t[i + n] = "@"
                            /\ DomainEnd(t, i + n + 1) # 0}
    IN  IF ok = {} THEN 0 ELSE DomainEnd(t, i + Max(ok) + 1)

RECURSIVE Scan(_, _)
\* The scan of re.findall from t[i]: the leftmost match, then on from its end.
Scan(t, i) ==
    IF i > Len(t) THEN <<>>
    ELSE LET e == MatchAt(t, i)
         IN  IF e = 0 THEN Scan(t, i + 1)
             ELSE <<SubSeq(t, i, e - 1)>> \o Scan(t, e)

\* A wrong line 90: re.search in place of re.findall, the first match only.
FindFirst(t) == LET all == Scan(t, 1) IN IF all = <<>> THEN <<>> ELSE <<all[1]>>

FindAll(t) == Scan(t, 1)

\* emails if emails else ["n/a"]
NA == <<"n","/","a">>

EmailsOrNA(emails) == IF emails # <<>> THEN emails ELSE <<NA>>

\* ------------------------------------------------------------------------
\* The payload: xml.etree.ElementTree elements as the code reads them
\* ------------------------------------------------------------------------

\* A leaf element; text is None for an empty element such as <ArticleTitle/>.
Elem(text) == [text |-> text]

\* A leaf element holding the string s.
Leaf(s) == Some(Elem(Some(s)))

\* A leaf element with no text.
EmptyLeaf == Some(Elem(None))

\* An Author node: find("ForeName"), find("LastName"), find("AffiliationInfo").
Author(fore, last, affinfo) ==
    [ForeName |-> fore, LastName |-> last, AffiliationInfo |-> affinfo]

\* An AffiliationInfo node whose Affiliation child holds the string s.
Aff(s) == Some([Affiliation |-> Leaf(s)])

DateRevised(y, m, d) == Some([Year |-> y, Month |-> m, Day |-> d])

GoodDate == DateRevised(Leaf(<<"2","0","2","4">>), Leaf(<<"0","1">>), Leaf(<<"0","2">>))

\* A PubmedArticle node.
Article(pmid, date, title, authorlist) ==
    [MedlineCitation |->
        Some([PMID |-> pmid,
              DateRevised |-> date,
              Article |-> Some([ArticleTitle |-> title, AuthorList |-> authorlist])])]

DigitOf == <<"1","2","3","4","5","6","7","8","9">>

\* The PMID text of the k-th article of a payload: unique within the payload.
PmidOf(k) == <<DigitOf[k]>>

TitleOf(k) == <<"T", DigitOf[k]>>

\* A complete article at position k with the given Author nodes.
GoodArticle(k, authors) ==
    Article(Leaf(PmidOf(k)), GoodDate, Leaf(TitleOf(k)), Some(authors))

\* The payload string handed to extract_non_academic_authors.  kind is "empty"
\* (the "" that fetch_papers_details returns on a request error), "garbage" (text
\* that ET.fromstring cannot decode, whose readable part holds `articles`) or
\* "xml" (a document whose root holds `articles`).
Payload(kind, articles) == [kind |-> kind, articles |-> articles]

EmptyPayload == Payload("empty", <<>>)

\* ------------------------------------------------------------------------
\* Input universes
\* ------------------------------------------------------------------------

TxtAcme == <<"A","c","m","e"," ","a","@","x",".","c","o">>
TxtMIT == <<"M","I","T">>
TxtSchool == <<"X"," ","S","c","h","o","o","l">>

AuNoAff == Author(Leaf(<<"A","l">>), Leaf(<<"P","o">>), None)
AuAcad == Author(Leaf(<<"B","o">>), Leaf(<<"Q","u">>), Aff(TxtSchool))
AuAcme == Author(Leaf(<<"C","y">>), Leaf(<<"R","a">>), Aff(TxtAcme))
AuMIT == Author(Leaf(<<"D","i">>), Leaf(<<"S","u">>), Aff(TxtMIT))

\* Complete Author nodes: skipped, academic, and two distinct non-academic ones.
StructAuthors == {AuNoAff, AuAcad, AuAcme, AuMIT}

RECURSIVE AuthorListSeqs(_, _)
\* The sequences of exactly a author lists that hold at most n authors in all.
AuthorListSeqs(a, n) ==
    IF a = 0 THEN {<<>>}
    ELSE UNION {
           UNION { { <<first>> \o rest : rest \in AuthorListSeqs(a - 1, n - k) }
                   : first \in [1..k -> StructAuthors] }
           : k \in 0..n }

\* Complete articles numbered by position.
GoodArticles(lists) == [k \in 1..Len(lists) |-> GoodArticle(k, lists[k])]

\* Documents of complete articles.
StructPayloads ==
    { Payload("xml", GoodArticles(lists)) :
        lists \in UNION { AuthorListSeqs(a, MaxAuthors) : a \in 0..MaxArticles } }

\* Author nodes with a missing or empty child.
DefectAuthors ==
    { Author(None, Leaf(<<"R","a">>), Aff(TxtAcme)),
      Author(Leaf(<<"C","y">>), None, Aff(TxtAcme)),
      Author(EmptyLeaf, Leaf(<<"R","a">>), Aff(TxtAcme)),
      Author(Leaf(<<"C","y">>), EmptyLeaf, Aff(TxtMIT)),
      Author(None, None, Aff(TxtSchool)),
      Author(None, None, None),
      Author(Leaf(<<"C","y">>), Leaf(<<"R","a">>), Some([Affiliation |-> EmptyLeaf])),
      Author(Leaf(<<"C","y">>), Leaf(<<"R","a">>), Some([Affiliation |-> None])) }

\* Article nodes at position k with a missing or empty child, each with one
\* non-academic author where it has an author list.
DefectArticles(k) ==
    { Article(Leaf(PmidOf(k)), GoodDate, None, Some(<<AuAcme>>)),
      Article(Leaf(PmidOf(k)), GoodDate, EmptyLeaf, Some(<<AuAcme>>)),
      Article(Leaf(PmidOf(k)), None, Leaf(TitleOf(k)), Some(<<AuAcme>>)),
      Article(Leaf(PmidOf(k)), DateRevised(Leaf(<<"2","0","2","4">>), None, EmptyLeaf),
              Leaf(TitleOf(k)), Some(<<AuAcme>>)),
      Article(Leaf(PmidOf(k)), DateRevised(EmptyLeaf, Leaf(<<"0","1">>), Leaf(<<"0","2">>)),
              Leaf(TitleOf(k)), Some(<<AuAcme>>)),
      Article(None, GoodDate, Leaf(TitleOf(k)), Some(<<AuAcme>>)),
      Article(EmptyLeaf, GoodDate, Leaf(TitleOf(k)), Some(<<AuMIT>>)),
      Article(Leaf(PmidOf(k)), GoodDate, Leaf(TitleOf(k)), None),
      [MedlineCitation |-> None],
      [MedlineCitation |-> Some([PMID |-> Leaf(PmidOf(k)), DateRevised |-> GoodDate,
                                 Article |-> None])] }
      \cup { Article(Leaf(PmidOf(k)), GoodDate, Leaf(TitleOf(k)), Some(<<d>>)) :
               d \in DefectAuthors }
      \cup { Article(Leaf(PmidOf(k)), GoodDate, Leaf(TitleOf(k)), Some(<<AuMIT, d>>)) :
               d \in DefectAuthors }

\* Documents with one defective article: alone, after and before a complete one.
DefectPayloads ==
    { Payload("xml", <<d>>) : d \in DefectArticles(1) }
    \cup { Payload("xml", <<GoodArticle(1, <<AuMIT>>), d>>) : d \in DefectArticles(2) }
    \cup { Payload("xml", <<d, GoodArticle(2, <<AuMIT>>)>>) : d \in DefectArticles(1) }

\* Undecodable text whose readable part holds one or two complete articles.
GarbagePayloads ==
    { Payload("garbage", <<>>),
      Payload("garbage", <<GoodArticle(1, <<AuAcme>>)>>),
      Payload("garbage", <<GoodArticle(1, <<AuAcme>>), GoodArticle(2, <<AuAcad>>)>>) }

\* Pieces of affiliation text.
Fragments ==
    { <<"a","@","x">>, <<".","c","o">>, <<".","c">>, <<"@">>, <<" ">>,
      <<"b","%","@","y","-",".","o","r","g">>, <<" ","c","@","z",".","i","o">>, <<"1">>,
      <<"l","a","b","s">>, <<"L","a","b","s">>, <<"l","a">>, <<"b","s">>,
      <<"S","c","h","o","o","l">>, <<"s","c","h","o","o","l">>,
      <<"U","n","i","v","e","r","s","i","t","y">>,
      <<"I","n","s","t","i","t","u","t","e">>,
      <<"C","o","l","l","e","g","e">> }

RECURSIVE Texts(_)
\* The concatenations of at most n fragments.
Texts(n) ==
    IF n = 0 THEN {<<>>}
    ELSE Texts(n - 1) \cup { f \o t : f \in Fragments, t \in Texts(n - 1) }

\* Documents of one article with one author, over every affiliation text.
TextPayloads ==
    { Payload("xml", <<GoodArticle(1, <<Author(Leaf(<<"C","y">>), Leaf(<<"R","a">>), Aff(t))>>)>>) :
        t \in Texts(MaxFrags) }

Payloads == StructPayloads \cup DefectPayloads \cup GarbagePayloads \cup TextPayloads

\* ------------------------------------------------------------------------
\* State
\* ------------------------------------------------------------------------

VARIABLES
    entry,            \* which main runs: "pubmedtool.main" or "cli.main"
    pc,               \* the position in main / extract_non_academic_authors
    stages,           \* the pipeline stages entered so far, in order
    paper_ids,        \* main: paper_ids
    papers,           \* main: papers, the payload
    ai,               \* extract: position of the article loop (line 58)
    aj,               \* __find: position of the author loop (line 82)
    details,          \* extract: id, date and title read for the current article
    author_data,      \* __find: author_data, {} or the three author fields
    found,            \* __find: the authors of this call logged at line 92
    filtered_papers,  \* extract: filtered_papers
    raised,           \* the exception that ended the run, or ""
    csv,              \* the rows of the file written, None when none was
    printed           \* whether the records were printed to standard output

vars == <<entry, pc, stages, paper_ids, papers, ai, aj, details, author_data,
          found, filtered_papers, raised, csv, printed>>

NoDetails == [id |-> None, date |-> <<>>, title |-> None]

Init ==
    /\ entry \in {"pubmedtool.main", "cli.main"}
    /\ pc = "fetch_ids"
    /\ stages = <<>>
    /\ paper_ids = <<>>
    /\ papers = EmptyPayload
    /\ ai = 0
    /\ aj = 0
    /\ details = NoDetails
    /\ author_data = None
    /\ found = {}
    /\ filtered_papers = <<>>
    /\ raised = ""
    /\ csv = None
    /\ printed = FALSE

\* ------------------------------------------------------------------------
\* Pure parts of the code
\* ------------------------------------------------------------------------

\* str(x) inside an f-string, for x an Element.text: None formats as "None".
Str(text) == IF text = None THEN <<"N","o","n","e">> ELSE text[1]

\* A wrong line 56: a lenient parser that decodes what it can of any text.
ParseLenient(p) == TRUE

\* ET.fromstring(papers) returns a tree (line 56) rather than raising ParseError.
ParseOk(p) == p.kind = "xml"

\* Lines 61-68 on one PubmedArticle node: the exception raised by the first
\* attribute access on a None, or "" and the id, date and title read.
ReadArticle(article) ==
    LET mc == article.MedlineCitation
        Fail == [exc |-> "AttributeError", details |-> NoDetails]
    IN  IF mc = None THEN Fail
        ELSE IF mc[1].PMID = None THEN Fail
        ELSE IF mc[1].DateRevised = None THEN Fail
        ELSE LET dr == mc[1].DateRevised[1]
             IN  IF dr.Year = None \/ dr.Month = None \/ dr.Day = None THEN Fail
                 ELSE IF mc[1].Article = None THEN Fail
                 ELSE IF mc[1].Article[1].ArticleTitle = None THEN Fail
                 ELSE [exc |-> "",
                       details |->
                         [id |-> mc[1].PMID[1].text,
                          date |-> Str(dr.Year[1].text) \o <<"-">> \o Str(dr.Month[1].text)
                                     \o <<"-">> \o Str(dr.Day[1].text),
                          title |-> mc[1].Article[1].ArticleTitle[1].text]]

\* medline_citation.find("Article").find("AuthorList") (line 69), once
\* ReadArticle has passed.
AuthorListOf(article) == article.MedlineCitation[1].Article[1].AuthorList

\* A wrong line 81: the accumulator of the previous call is used again.
StaleAuthorData == author_data

\* author_data = {} (line 81)
FreshAuthorData == None

\* A wrong lines 88-91: the fields are stored only into an empty author_data.
AccumulateFirst(old, new) == IF old # None THEN old ELSE Some(new)

\* Lines 88-91: the three keys of author_data are overwritten.
Accumulate(old, new) == Some(new)

\* The body of the author loop (lines 84-92) on one Author node: the exception
\* raised, whether the author's fields were stored (and logged at line 92), and
\* author_data afterwards.
ProcessAuthor(author, data) ==
    LET Skip == [exc |-> "", hit |-> FALSE, data |-> data]
        Fail(e) == [exc |-> e, hit |-> FALSE, data |-> data]
    IN  IF author.AffiliationInfo = None THEN Skip
        ELSE LET aff == author.AffiliationInfo[1].Affiliation
             IN  IF aff = None THEN Fail("AttributeError")
                 ELSE IF aff[1].text = None THEN Fail("TypeError")
                 ELSE LET affiliation_text == aff[1].text[1]
                      IN  IF NoKeywordIn(affiliation_text)
                          THEN IF author.ForeName = None \/ author.LastName = None
                               THEN Fail("AttributeError")
                               ELSE [exc |-> "", hit |-> TRUE,
                                     data |-> Accumulate(data,
                                       [name |-> Str(author.ForeName[1].text) \o <<" ">>
                                                   \o Str(author.LastName[1].text),
                                        affiliation |-> affiliation_text,
                                        email |-> EmailsOrNA(FindAll(affiliation_text))])]
                          ELSE Skip

\* if author_data: (line 70)
Retain(data) == data # None

\* Lines 71-75: the record appended for the current article.
Record(d, data) ==
    [id |-> d.id, date |-> d.date, title |-> d.title, authors |-> data[1]]

\* A wrong line 75: the record is put first.
KeepFirstPlace(list, rec) == <<rec>> \o list

\* filtered_papers.append(details) (line 75)
Keep(list, rec) == Append(list, rec)

RECURSIVE Join(_, _)
\* sep.join(strings)
Join(sep, strings) ==
    IF strings = <<>> THEN <<>>
    ELSE IF Len(strings) = 1 THEN strings[1]
    ELSE strings[1] \o sep \o Join(sep, Tail(strings))

\* A csv field: csv.writer writes None as the empty string.
Field(text) == IF text = None THEN <<>> ELSE text[1]

CsvHeader ==
    << <<"I","D">>, <<"D","a","t","e">>, <<"T","i","t","l","e">>,
       <<"N","o","n","-","a","c","a","d","e","m","i","c"," ","A","u","t","h","o","r","(","s",")">>,
       <<"C","o","m","p","a","n","y"," ","A","f","f","i","l","i","a","t","i","o","n","(","s",")">>,
       <<"A","u","t","h","o","r"," ","E","m","a","i","l">> >>

\* Lines 103-110: the row written for one paper.
CsvRow(paper) ==
    << Field(paper.id), paper.date, Field(paper.title), paper.authors.name,
       paper.authors.affiliation,
       IF paper.authors.email # <<>> THEN Join(<<",", " ">>, paper.authors.email) ELSE <<>> >>

\* Lines 99-110: the rows of the file written for the papers.
CsvRows(ps) == <<CsvHeader>> \o [k \in 1..Len(ps) |-> CsvRow(ps[k])]

\* ------------------------------------------------------------------------
\* Actions
\* ------------------------------------------------------------------------

\* What fetch_paper_ids can return: [] (a request error, or no hit) or ids.
IdResults == { <<>>, <<PmidOf(1), PmidOf(2)>> }

\* main: paper_ids = fetcher.fetch_paper_ids(); if not paper_ids: return
FetchPaperIds ==
    /\ pc = "fetch_ids"
    /\ stages' = Append(stages, "search")
    /\ \E ids \in IdResults :
         /\ paper_ids' = ids
         /\ pc' = IF ids = <<>> THEN "done" ELSE "fetch_details"
    /\ UNCHANGED <<entry, papers, ai, aj, details, author_data, found,
                   filtered_papers, raised, csv, printed>>

\* main: papers = fetcher.fetch_papers_details(paper_ids); if not papers: return
FetchPapersDetails ==
    /\ pc = "fetch_details"
    /\ stages' = Append(stages, "fetch")
    /\ \E p \in Payloads \cup {EmptyPayload} :
         /\ papers' = p
         /\ pc' = IF p.kind = "empty" THEN "done" ELSE "extract"
    /\ UNCHANGED <<entry, paper_ids, ai, aj, details, author_data, found,
                   filtered_papers, raised, csv, printed>>

\* extract_non_academic_authors, lines 55-57: the payload is decoded, or the
\* ParseError of ET.fromstring leaves the function and main.
ExtractBegin ==
    /\ pc = "extract"
    /\ stages' = Append(stages, "extract")
    /\ IF ParseOk(papers)
       THEN /\ pc' = "article"
            /\ ai' = 1
            /\ filtered_papers' = <<>>
            /\ raised' = raised
       ELSE /\ pc' = "done"
            /\ raised' = "ParseError"
            /\ UNCHANGED <<ai, filtered_papers>>
    /\ UNCHANGED <<entry, paper_ids, papers, aj, details, author_data, found,
                   csv, printed>>

\* Lines 58-69 and 80-82: the next article's fields are read and
\* __find_non_academic_authors is entered with its AuthorList.
ArticleBegin ==
    /\ pc = "article"
    /\ ai <= Len(papers.articles)
    /\ LET r == ReadArticle(papers.articles[ai])
       IN  IF r.exc # ""
           THEN /\ raised' = r.exc
                /\ pc' = "done"
                /\ UNCHANGED <<details, author_data, found, aj>>
           ELSE /\ details' = r.details
                /\ author_data' = FreshAuthorData
                /\ found' = {}
                /\ IF AuthorListOf(papers.articles[ai]) = None
                   THEN /\ raised' = "AttributeError"
                        /\ pc' = "done"
                        /\ aj' = aj
                   ELSE /\ raised' = raised
                        /\ pc' = "author"
                        /\ aj' = 1
    /\ UNCHANGED <<entry, stages, paper_ids, papers, ai, filtered_papers, csv, printed>>

\* The authors of the article being processed.
CurrentAuthors == AuthorListOf(papers.articles[ai])[1]

\* Lines 82-92: one iteration of the author loop.
AuthorStep ==
    /\ pc = "author"
    /\ aj <= Len(CurrentAuthors)
    /\ LET r == ProcessAuthor(CurrentAuthors[aj], author_data)
       IN  IF r.exc # ""
           THEN /\ raised' = r.exc
                /\ pc' = "done"
                /\ UNCHANGED <<aj, author_data, found>>
           ELSE /\ author_data' = r.data
                /\ found' = IF r.hit THEN found \cup {aj} ELSE found
                /\ aj' = aj + 1
                /\ UNCHANGED <<raised, pc>>
    /\ UNCHANGED <<entry, stages, paper_ids, papers, ai, details, filtered_papers,
                   csv, printed>>

\* Lines 93 and 70-75: __find returns author_data (its frame, and with it the
\* author loop's position, is gone) and the article is kept or not.
ArticleEnd ==
    /\ pc = "author"
    /\ aj > Len(CurrentAuthors)
    /\ filtered_papers' = IF Retain(author_data)
                          THEN Keep(filtered_papers, Record(details, author_data))
                          ELSE filtered_papers
    /\ ai' = ai + 1
    /\ aj' = 0
    /\ pc' = "article"
    /\ UNCHANGED <<entry, stages, paper_ids, papers, details, author_data, found,
                   raised, csv, printed>>

\* Line 77: return filtered_papers.
ExtractReturn ==
    /\ pc = "article"
    /\ ai > Len(papers.articles)
    /\ pc' = "returned"
    /\ UNCHANGED <<entry, stages, paper_ids, papers, ai, aj, details, author_data,
                   found, filtered_papers, raised, csv, printed>>

\* write_to_csv (lines 95-112), or the print of the records: with a file
\* argument the rows are written unless open() fails (the IOError is logged).
Export(file, ioerror) ==
    /\ stages' = Append(stages, "export")
    /\ csv' = IF file /\ ~ioerror THEN Some(CsvRows(filtered_papers)) ELSE csv
    /\ printed' = IF file THEN printed ELSE TRUE
    /\ pc' = "done"

\* pubmedtool.main, lines 148-154: the records are written or printed.
MainExport ==
    /\ pc = "returned"
    /\ entry = "pubmedtool.main"
    /\ \E file \in BOOLEAN, ioerror \in BOOLEAN : Export(file, ioerror)
    /\ UNCHANGED <<entry, paper_ids, papers, ai, aj, details, author_data, found,
                   filtered_papers, raised>>

\* cli.main, lines 28-38: stop when nothing was extracted, else write or print.
CliExport ==
    /\ pc = "returned"
    /\ entry = "cli.main"
    /\ IF filtered_papers = <<>>
       THEN /\ pc' = "done"
            /\ UNCHANGED <<stages, csv, printed>>
       ELSE \E file \in BOOLEAN, ioerror \in BOOLEAN : Export(file, ioerror)
    /\ UNCHANGED <<entry, paper_ids, papers, ai, aj, details, author_data, found,
                   filtered_papers, raised>>

Next ==
    \/ FetchPaperIds
    \/ FetchPapersDetails
    \/ ExtractBegin
    \/ ArticleBegin
    \/ AuthorStep
    \/ ArticleEnd
    \/ ExtractReturn
    \/ MainExport
    \/ CliExport

Spec == Init /\ [][Next]_vars

\* ------------------------------------------------------------------------
\* What the properties speak of
\* ------------------------------------------------------------------------

Range(f) == {f[k] : k \in DOMAIN f}

\* extract_non_academic_authors has been called and is over (returned or raised).
ExtractOver == pc \in {"returned", "done"} /\ "extract" \in Range(stages)

\* extract_non_academic_authors has returned its list.
ExtractReturned == ExtractOver /\ raised = ""

\* The author has affiliation information.
HasAffiliationInfo(a) == a.AffiliationInfo # None

\* The author's affiliation text, the empty string where the text is absent.
AffiliationText(a) ==
    IF a.AffiliationInfo = None THEN <<>>
    ELSE IF a.AffiliationInfo[1].Affiliation = None THEN <<>>
    ELSE IF a.AffiliationInfo[1].Affiliation[1].text = None THEN <<>>
    ELSE a.AffiliationInfo[1].Affiliation[1].text[1]

\* The text contains one of the five substrings somewhere.
ContainsKeyword(t) ==
    \E kw \in Range(Keywords) :
        \E i \in 1..Len(t) :
            /\ i + Len(kw) - 1 <= Len(t)
            /\ \A k \in 1..Len(kw) : t[i + k - 1] = kw[k]

\* The author is non-academic: affiliation information without any keyword.
Qualifying(a) == HasAffiliationInfo(a) /\ ~ContainsKeyword(AffiliationText(a))

\* A name part, the empty string where the node or its text is absent.
NamePart(node) == IF node = None THEN <<>> ELSE IF node[1].text = None THEN <<>> ELSE node[1].text[1]

\* The article node has every child that lines 61-69 read.
Complete(article) ==
    /\ ReadArticle(article).exc = ""
    /\ AuthorListOf(article) # None

\* The Author nodes of an article, none where it has no author list.
AuthorsOf(article) ==
    IF Complete(article) THEN AuthorListOf(article)[1] ELSE <<>>

\* The article has at least one non-academic author.
Kept(article) == \E j \in 1..Len(AuthorsOf(article)) : Qualifying(AuthorsOf(article)[j])

\* The author fields the code stores for a non-academic author.
FieldsOf(a) ==
    [name |-> Str(a.ForeName[1].text) \o <<" ">> \o Str(a.LastName[1].text),
     affiliation |-> AffiliationText(a),
     email |-> EmailsOrNA(FindAll(AffiliationText(a)))]

\* The author loop's iterations run so far in the current call of __find: the
\* completed ones and the one that raised.
Processed ==
    IF aj = 0 THEN {}
    ELSE {j \in 1..Len(CurrentAuthors) : j < aj \/ (j = aj /\ raised # "")}

\* The articles whose loop iteration (lines 58-75) is complete.
Done == IF ai = 0 THEN 0 ELSE ai - 1

\* The positions, in payload order, of the first n articles that are Kept.
KeptAmong(n) ==
    LET Test(k) == Kept(papers.articles[k])
    IN  SelectSeq([k \in 1..n |-> k], Test)

\* The article at position k has a record in filtered_papers.
HasRecord(k) ==
    \E m \in 1..Len(filtered_papers) :
        filtered_papers[m].id = papers.articles[k].MedlineCitation[1].PMID[1].text

\* ------------------------------------------------------------------------
\* Properties
\* ------------------------------------------------------------------------

\* C1: every author node whose loop iteration has run was stored as a
\* non-academic author (its fields produced, line 92 reached) if and only if it
\* has affiliation information and its affiliation text contains none of the
\* five substrings.
C1_QualifiesIffNoKeyword ==
    \A j \in Processed : (j \in found) <=> Qualifying(CurrentAuthors[j])

\* C1, on the authors whose iteration completed: the authors stored are exactly
\* those with affiliation information and no keyword in the text.
C1_OnCompletedIterations ==
    \A j \in Processed : (j < aj) => ((j \in found) <=> Qualifying(CurrentAuthors[j]))

\* C2: the list returned holds exactly the articles with at least one
\* non-academic author, each once, in payload order (and so does the list built
\* so far, for the articles already handled).
C2_RetainedSubsequence ==
    (raised = "" /\ ai >= 1) =>
        LET kept == KeptAmong(Done)
        IN  /\ Len(filtered_papers) = Len(kept)
            /\ \A m \in 1..Len(kept) :
                 filtered_papers[m].id =
                     papers.articles[kept[m]].MedlineCitation[1].PMID[1].text

\* C2 witness: a list returned for three articles of which the middle one is dropped.
C2_Witness ==
    /\ ExtractReturned
    /\ Len(papers.articles) = 3
    /\ ~Kept(papers.articles[2])
    /\ Len(filtered_papers) = 2
    /\ filtered_papers[1].id = Some(PmidOf(1))
    /\ filtered_papers[2].id = Some(PmidOf(3))

\* The last non-academic author among the first n of the list, None when none is.
LastQualifying(authors, n) ==
    LET q == {j \in 1..n : Qualifying(authors[j])}
    IN  IF q = {} THEN None ELSE Some(FieldsOf(authors[Max(q)]))

\* C3: the accumulated author fields are those of the last non-academic author
\* handled so far (a later academic author or one without affiliation
\* information leaves them as they are), and every retained record carries the
\* fields of the last non-academic author of its article.
C3_LastQualifyingAuthor ==
    /\ (raised = "" /\ aj >= 1) =>
           author_data = LastQualifying(CurrentAuthors, aj - 1)
    /\ raised = "" =>
         \A k \in 1..Done :
            \A m \in 1..Len(filtered_papers) :
               filtered_papers[m].id = papers.articles[k].MedlineCitation[1].PMID[1].text
               => Some(filtered_papers[m].authors) =
                    LastQualifying(AuthorsOf(papers.articles[k]),
                                   Len(AuthorsOf(papers.articles[k])))

\* C3 witness: two non-academic authors followed by an academic one; the record
\* returned carries the second one's fields.
C3_Witness ==
    /\ ExtractReturned
    /\ Len(papers.articles) = 1
    /\ AuthorsOf(papers.articles[1]) = <<AuAcme, AuMIT, AuAcad>>
    /\ Len(filtered_papers) = 1
    /\ filtered_papers[1].authors.name = <<"D","i"," ","S","u">>
    /\ filtered_papers[1].authors.affiliation = TxtMIT
    /\ filtered_papers[1].authors.email = <<NA>>

\* The article lacks its title node or its revision-date node, has every other
\* child, and has a non-academic author.
LacksTitleOrDate(article) ==
    /\ article.MedlineCitation # None
    /\ LET mc == article.MedlineCitation[1]
       IN  /\ mc.PMID # None
           /\ mc.Article # None
           /\ mc.Article[1].AuthorList # None
           /\ \/ mc.Article[1].ArticleTitle = None /\ mc.DateRevised = GoodDate
              \/ mc.Article[1].ArticleTitle # None /\ mc.DateRevised = None
           /\ \E j \in 1..Len(mc.Article[1].AuthorList[1]) :
                 Qualifying(mc.Article[1].AuthorList[1][j])

\* The complete articles after position k that have a non-academic author all
\* have their record.
LaterArticlesProcessed(k) ==
    \A n \in (k + 1)..Len(papers.articles) :
        (Complete(papers.articles[n]) /\ Kept(papers.articles[n])) => HasRecord(n)

\* C4: once extract_non_academic_authors is over, it has not failed on an article
\* that lacks its title (or revision-date) node: that article has a record, with
\* the empty string as title where the title node is missing, and the articles
\* after it have been processed.
C4_MissingTitleTolerated ==
    ExtractOver =>
        \A k \in 1..Len(papers.articles) :
            (papers.kind = "xml" /\ LacksTitleOrDate(papers.articles[k])) =>
                /\ raised = ""
                /\ \E m \in 1..Len(filtered_papers) :
                     /\ filtered_papers[m].id = papers.articles[k].MedlineCitation[1].PMID[1].text
                     /\ (papers.articles[k].MedlineCitation[1].Article[1].ArticleTitle = None
                           => filtered_papers[m].title = Some(<<>>))
                /\ LaterArticlesProcessed(k)

\* The article has no AuthorList node and every other child.
LacksAuthorList(article) ==
    /\ ReadArticle(article).exc = ""
    /\ AuthorListOf(article) = None

\* C5: once extract_non_academic_authors is over, it has not failed on an article
\* without author list: that article has no record and the articles after it
\* have been processed.
C5_MissingAuthorListTolerated ==
    ExtractOver =>
        \A k \in 1..Len(papers.articles) :
            (papers.kind = "xml" /\ LacksAuthorList(papers.articles[k])) =>
                /\ raised = ""
                /\ ~HasRecord(k)
                /\ LaterArticlesProcessed(k)

\* The author's Affiliation node is there and has text.
HasAffiliationText(a) ==
    /\ a.AffiliationInfo # None
    /\ a.AffiliationInfo[1].Affiliation # None
    /\ a.AffiliationInfo[1].Affiliation[1].text # None

\* C6: every non-academic author (one with an affiliation text) whose loop
\* iteration has run has its fields stored, and the name stored is the given
\* name, one space, the family name, a missing part giving an empty segment.
C6_NameWithMissingPart ==
    \A j \in Processed :
        (Qualifying(CurrentAuthors[j]) /\ HasAffiliationText(CurrentAuthors[j])) =>
            /\ j \in found
            /\ (j = aj - 1 =>
                  /\ author_data # None
                  /\ author_data[1].name =
                       NamePart(CurrentAuthors[j].ForeName) \o <<" ">>
                         \o NamePart(CurrentAuthors[j].LastName))

\* C6, where both name parts have text: the name stored is the two joined by
\* one space.
C6_NameWithBothParts ==
    \A j \in Processed :
        (/\ j = aj - 1
         /\ j \in found
         /\ CurrentAuthors[j].ForeName # None
         /\ CurrentAuthors[j].LastName # None
         /\ CurrentAuthors[j].ForeName[1].text # None
         /\ CurrentAuthors[j].LastName[1].text # None) =>
            /\ author_data # None
            /\ author_data[1].name =
                 CurrentAuthors[j].ForeName[1].text[1] \o <<" ">>
                   \o CurrentAuthors[j].LastName[1].text[1]

\* An email-shaped string starts at t[i] and ends at t[j]: a non-empty local
\* part, "@", a non-empty domain, ".", two or more letters.
EmailSpan(t, i, j) ==
    \E a \in (i + 1)..(j - 4) :
        /\ t[a] = "@"
        /\ \A k \in i..(a - 1) : t[k] \in LocalChars
        /\ \E d \in (a + 2)..(j - 2) :
             /\ t[d] = "."
             /\ \A k \in (a + 1)..(d - 1) : t[k] \in DomainChars
             /\ \A k \in (d + 1)..j : t[k] \in Letters

\* The ends of the email-shaped strings that start at t[i].
EmailEnds(t, i) == {j \in i..Len(t) : EmailSpan(t, i, j)}

RECURSIVE AllMatchesInOrder(_, _, _)
\* E lists the email-shaped matches of t from t[from] on, in order of appearance:
\* each is the longest email-shaped string at the leftmost position where one
\* starts after the match before it.
AllMatchesInOrder(E, t, from) ==
    LET starts == {i \in from..Len(t) : EmailEnds(t, i) # {}}
    IN  IF starts = {} THEN E = <<>>
        ELSE LET p == CHOOSE i \in starts : \A k \in starts : i <= k
                 e == Max(EmailEnds(t, p))
             IN  /\ E # <<>>
                 /\ E[1] = SubSeq(t, p, e)
                 /\ AllMatchesInOrder(Tail(E), t, e + 1)

\* The emails field that belongs to the affiliation text t.
EmailsFieldFor(t, emails) ==
    /\ emails # <<>>
    /\ IF \E i \in 1..Len(t) : EmailEnds(t, i) # {}
       THEN AllMatchesInOrder(emails, t, 1)
       ELSE emails = <<NA>>

\* C7: the emails field of the author fields stored, and of every retained
\* record, is never empty: it lists all email-shaped matches of the affiliation
\* text in order of appearance, and is ["n/a"] when there is none.
C7_EmailsField ==
    /\ author_data # None =>
         EmailsFieldFor(author_data[1].affiliation, author_data[1].email)
    /\ \A m \in 1..Len(filtered_papers) :
         EmailsFieldFor(filtered_papers[m].authors.affiliation,
                        filtered_papers[m].authors.email)

\* C7 witness: a record returned with two addresses in order of appearance.
C7_Witness ==
    /\ ExtractReturned
    /\ Len(filtered_papers) = 1
    /\ filtered_papers[1].authors.affiliation =
         <<"b","%","@","y","-",".","o","r","g"," ","c","@","z",".","i","o">>
    /\ filtered_papers[1].authors.email =
         << <<"b","%","@","y","-",".","o","r","g">>, <<"c","@","z",".","i","o">> >>

\* C7, the other case: a record returned with no address, the field ["n/a"].
C7_WitnessNoEmail ==
    /\ ExtractReturned
    /\ Len(filtered_papers) = 1
    /\ filtered_papers[1].authors.affiliation = <<"a","@","x",".","c">>
    /\ filtered_papers[1].authors.email = <<NA>>

\* C8: a stage that yields nothing is the last stage of the run: nothing after
\* the search without identifiers, nothing after the fetch without payload, and
\* no export (no file written, nothing printed) after an extraction without
\* retained record.
C8_StopsAtEmptyStage ==
    /\ (stages # <<>> /\ paper_ids = <<>>) => stages = <<"search">>
    /\ ("fetch" \in Range(stages) /\ papers.kind = "empty")
          => stages = <<"search", "fetch">>
    /\ (ExtractOver /\ filtered_papers = <<>>)
          => /\ "export" \notin Range(stages)
             /\ csv = None
             /\ ~printed

\* C8, as far as both entry points go: no stage after a search without
\* identifiers or a fetch without payload.
C8_StopsWithoutIdsOrPayload ==
    /\ (stages # <<>> /\ paper_ids = <<>>) => stages = <<"search">>
    /\ ("fetch" \in Range(stages) /\ papers.kind = "empty")
          => stages = <<"search", "fetch">>

\* C9: an undecodable payload ends the call with a ParseError and nothing of
\* it is processed: no article is read, no author field stored, no record
\* built, nothing exported.
C9_ParseErrorNoPartialResults ==
    ("extract" \in Range(stages) /\ papers.kind = "garbage") =>
        /\ raised = "ParseError"
        /\ pc = "done"
        /\ filtered_papers = <<>>
        /\ details = NoDetails
        /\ author_data = None
        /\ "export" \notin Range(stages)
        /\ csv = None
        /\ ~printed

\* C9 witness: the call has failed on undecodable text that holds articles.
C9_Witness ==
    /\ "extract" \in Range(stages)
    /\ papers.kind = "garbage"
    /\ Len(papers.articles) = 2
    /\ raised = "ParseError"

\* C10: the author fields stored, and those of every retained record, are the
\* three fields of one Author node of the article being processed, respectively
\* of the record's own article.
C10_FieldsFromOneAuthorOfOwnArticle ==
    /\ (aj >= 1 /\ author_data # None) =>
         \E j \in 1..Len(CurrentAuthors) :
            /\ j < aj
            /\ Qualifying(CurrentAuthors[j])
            /\ author_data[1] = FieldsOf(CurrentAuthors[j])
    /\ \A m \in 1..Len(filtered_papers) :
         \E k \in 1..Done :
            /\ filtered_papers[m].id = papers.articles[k].MedlineCitation[1].PMID[1].text
            /\ \E j \in 1..Len(AuthorsOf(papers.articles[k])) :
                 /\ Qualifying(AuthorsOf(papers.articles[k])[j])
                 /\ filtered_papers[m].authors = FieldsOf(AuthorsOf(papers.articles[k])[j])

\* C10 witness: an academic author is being handled in the second article, after
\* a first article whose record holds its own non-academic author.
C10_Witness ==
    /\ pc = "author"
    /\ ai = 2
    /\ aj = 2
    /\ CurrentAuthors[1] = AuAcad
    /\ author_data = None
    /\ Len(filtered_papers) = 1
    /\ filtered_papers[1].authors = FieldsOf(AuAcme)

====
